---- MODULE Spec2Model ----
(***************************************************************************)
(* Model of the NoCloud metadata server (config.go and main.go): the       *)
(* configuration loader, the route dispatcher, the metadata renderer and   *)
(* the reload path.                                                        *)
(*                                                                         *)
(* Conventions.  A Go string that is split, searched or concatenated (a    *)
(* request path, a match pattern, a hostname, a rule name, a serial) is a  *)
(* sequence of atoms, each atom a TLA+ string; "/" is the path separator.  *)
(* A Go pointer is a sequence of length 0 (nil) or 1.  A byte slice is a   *)
(* sequence of string tokens.  A YAML document (map[string]any) is a       *)
(* function from keys to tagged values: a scalar [t |-> "s"], a sequence   *)
(* [t |-> "q"] or a nested mapping [t |-> "m"].                            *)
(***************************************************************************)
EXTENDS Integers, Sequences, FiniteSets, TLC

VARIABLES
    phase,       \* "boot" before main has loaded the config, "serving", "exited"
    store,       \* the *config the handler and reload share: <<>> or <<cfg>>
    reqs,        \* in-flight requests: request id -> request record
    lastLoad,    \* what the most recent loadConfig call returned, and to whom
    lastRender   \* the most recent RenderMetaData call and what it returned

vars == <<phase, store, reqs, lastLoad, lastRender>>

(***************************************************************************)
(* Bounds of the model.                                                    *)
(***************************************************************************)
MaxRules == 2        \* rules per generated configuration source
MaxRequests == 1     \* requests in flight at the same time

(***************************************************************************)
(* Program constants.                                                      *)
(***************************************************************************)
defaultListenPort == 8000
defaultSuffixLength == 4
defaultListenAddress == <<"0.0.0.0">>

Range(s) == {s[i] : i \in DOMAIN s}

(***************************************************************************)
(* YAML documents.                                                         *)
(***************************************************************************)
Scalar(v) == [t |-> "s", s |-> v]
Sequence(v) == [t |-> "q", q |-> v]
Mapping(m) == [t |-> "m", m |-> m]
EmptyDoc == [k \in {} |-> Scalar("")]

\* yaml.v3 writes the keys of a mapping in sorted order: every key the model
\* uses, sorted.
KeyOrder == <<"a", "b", "x", "y">>

RECURSIVE marshalValue(_)
RECURSIVE marshalKeys(_, _)
\* The entries of mapping m for the keys KeyOrder[i..], in order.
marshalKeys(m, i) ==
    IF i > Len(KeyOrder) THEN <<>>
    ELSE IF KeyOrder[i] \in DOMAIN m
         THEN <<KeyOrder[i], ":">> \o marshalValue(m[KeyOrder[i]]) \o <<"\n">>
              \o marshalKeys(m, i + 1)
         ELSE marshalKeys(m, i + 1)

marshalValue(v) ==
    IF v.t = "s" THEN <<v.s>>
    ELSE IF v.t = "q" THEN <<"[">> \o v.q \o <<"]">>
    ELSE IF DOMAIN v.m = {} THEN <<"{}">>
    ELSE <<"{">> \o marshalKeys(v.m, 1) \o <<"}">>

\* yaml.Marshal of a map[string]any: the byte form of the document.  An empty
\* mapping is written "{}", never as no bytes at all.
yamlMarshalDoc(doc) ==
    IF DOMAIN doc = {} THEN <<"{}", "\n">> ELSE marshalKeys(doc, 1)

(***************************************************************************)
(* maps.Copy and maps.Merge of github.com/knadh/koanf/maps, as loadConfig  *)
(* calls them.                                                             *)
(***************************************************************************)
\* A buggy copy: the template map itself is handed back, so that writes to the
\* "clone" are writes to the template.
mapsCopy_NoCopy(userData) == [val |-> userData, aliasesTemplate |-> TRUE]

\* maps.Copy(userData): a deep copy; nothing of the result is shared with
\* userData.
mapsCopy(userData) == [val |-> userData, aliasesTemplate |-> FALSE]

RECURSIVE mergeInto(_, _)
\* maps.Merge(a, b) merges a into b and leaves the result in b: for each key
\* of a, a missing key of b is added; a value of a that is no mapping
\* overwrites; two mappings are merged recursively; a mapping of a over
\* anything else overwrites.
mergeInto(a, b) ==
    [key \in DOMAIN a \cup DOMAIN b |->
        IF key \notin DOMAIN a THEN b[key]
        ELSE IF key \notin DOMAIN b THEN a[key]
        ELSE IF a[key].t # "m" THEN a[key]
        ELSE IF b[key].t = "m" THEN Mapping(mergeInto(a[key].m, b[key].m))
        ELSE a[key]]

\* A buggy merge: a mapping of the overlay replaces the template's mapping
\* instead of being merged into it.
mapsMerge_Shallow(a, b) ==
    [key \in DOMAIN a \cup DOMAIN b |-> IF key \in DOMAIN a THEN a[key] ELSE b[key]]

mapsMerge(a, b) == mergeInto(a, b)

(***************************************************************************)
(* Errors: fmt.Errorf(format, args...) with the error wrapped by %w.       *)
(***************************************************************************)
Errorf(format, args, wrapped) == [format |-> format, args |-> args, wrapped |-> wrapped]

\* Every format argument of an error and of the errors it wraps: the text
\* that err.Error() shows besides the fixed words.
RECURSIVE ErrorArgs(_)
ErrorArgs(err) ==
    Range(err.args) \cup (IF err.wrapped = <<>> THEN {} ELSE ErrorArgs(err.wrapped[1]))

configFilePath == <<"config.yaml">>

(***************************************************************************)
(* Patterns.  A pattern is a literal: it compiles unless it holds an       *)
(* unbalanced "(", and it matches a string that contains it.               *)
(***************************************************************************)
regexpCompile(m) ==
    IF "(" \in Range(m)
    THEN [re |-> <<>>, err |-> <<Errorf("error parsing regexp: missing closing )", <<m>>, <<>>)>>]
    ELSE [re |-> <<[expr |-> m]>>, err |-> <<>>]

\* regexp.MatchString: unanchored, the expression may match anywhere in s.
MatchString(re, s) ==
    \E i \in 1..(Len(s) + 1) :
        /\ i + Len(re.expr) - 1 <= Len(s)
        /\ SubSeq(s, i, i + Len(re.expr) - 1) = re.expr

RECURSIVE compileFrom(_, _)
\* The loop of loadMatchers over c.MatchPatterns[i..].
compileFrom(c, i) ==
    IF i > Len(c.MatchPatterns) THEN [c |-> c, err |-> <<>>]
    ELSE LET r == regexpCompile(c.MatchPatterns[i])
         IN IF r.err # <<>>
            THEN [c |-> c,
                  err |-> <<Errorf("compile pattern %q: %w", <<c.MatchPatterns[i]>>, r.err)>>]
            ELSE compileFrom([c EXCEPT !.compiledMatchers = Append(@, r.re[1])], i + 1)

\* A buggy loadMatchers: a rule without patterns passes.
loadMatchers_AllowsNone(c) == compileFrom(c, 1)

loadMatchers(c) ==
    IF Len(c.MatchPatterns) = 0
    THEN [c |-> c, err |-> <<Errorf("no matchers specified", <<>>, <<>>)>>]
    ELSE compileFrom(c, 1)

\* A buggy validate: every instance config passes.
validate_AcceptsAll(ic) == <<>>

validate(ic) ==
    IF ic.Hostname = <<>> THEN <<Errorf("hostname field must be set", <<>>, <<>>)>> ELSE <<>>

(***************************************************************************)
(* loadConfig.  The file's parsed content (what yaml.Unmarshal returns) is *)
(* src; marshalErr is the set of rule indices for which yaml.Marshal       *)
(* returns an error.  The result is the pair (cfg, err) the function       *)
(* returns and trace, the checks it executed, in the order it executed     *)
(* them, each as <<rule index, check>>.                                    *)
(***************************************************************************)
LoadResult(cfg, err, trace) == [cfg |-> cfg, err |-> err, trace |-> trace]

\* Lines 79-90: the rendered user data of rule i of cfg.
renderUserData(cfg, i, marshalErr) ==
    LET c == cfg.ServerConfigs[i]
    IN IF c.UserDataTemplate \notin DOMAIN cfg.UserDataTemplates
       THEN [cfg |-> cfg, err |-> <<>>]
       ELSE LET clone == mapsCopy(cfg.UserDataTemplates[c.UserDataTemplate])
                merged == IF Cardinality(DOMAIN c.Replacements) > 0
                          THEN mapsMerge(c.Replacements, clone.val)
                          ELSE clone.val
                \* a write to a clone that is the template itself is a write
                \* to the template
                tpls == IF clone.aliasesTemplate
                        THEN [cfg.UserDataTemplates EXCEPT ![c.UserDataTemplate] = merged]
                        ELSE cfg.UserDataTemplates
            IN IF i \in marshalErr
               THEN [cfg |-> [cfg EXCEPT !.UserDataTemplates = tpls],
                     err |-> <<Errorf("render user data after replacements: %w", <<>>,
                                      <<Errorf("yaml: marshal", <<>>, <<>>)>>)>>]
               ELSE [cfg |-> [cfg EXCEPT !.UserDataTemplates = tpls,
                                         !.ServerConfigs[i].renderedUserData =
                                             yamlMarshalDoc(merged)],
                     err |-> <<>>]

\* Lines 92-97: the listen defaults.
listenDefaults(cfg) ==
    [cfg EXCEPT !.ListenAddress = IF @ = <<>> THEN defaultListenAddress ELSE @,
                !.ListenPort = IF @ = 0 THEN defaultListenPort ELSE @]

RECURSIVE loadServerConfigs(_, _, _, _)
\* The loop of lines 66-91 from rule i on, and the return of line 98.
loadServerConfigs(cfg, i, marshalErr, trace) ==
    IF i > Len(cfg.ServerConfigs)
    THEN LoadResult(<<listenDefaults(cfg)>>, <<>>, trace)
    ELSE
    LET c == cfg.ServerConfigs[i]
        lm == loadMatchers(c)
        cfg1 == [cfg EXCEPT !.ServerConfigs[i] = lm.c]
        t1 == Append(trace, <<i, "loadMatchers">>)
        t2 == Append(t1, <<i, "instanceConfig">>)
        t3 == Append(t2, <<i, "replacements">>)
        t4 == Append(t3, <<i, "userData">>)
    IN
    IF lm.err # <<>>
    THEN LoadResult(<<>>, <<Errorf("config %q has invalid matchers: %w", <<c.Name>>, lm.err)>>, t1)
    ELSE IF c.InstanceConfig = <<>>
    THEN LoadResult(<<>>, <<Errorf("config %q does not have an instanceConfig set",
                                   <<c.Name>>, <<>>)>>, t2)
    ELSE IF validate(c.InstanceConfig[1]) # <<>>
    THEN LoadResult(<<>>, <<Errorf("invalid instance config: %w", <<>>,
                                   validate(c.InstanceConfig[1]))>>, t2)
    ELSE IF c.UserDataTemplate = "" /\ Cardinality(DOMAIN c.Replacements) > 0
    THEN LoadResult(<<>>,
             <<Errorf("replacers can only be configured when referencing a user data template",
                      <<>>, <<>>)>>, t3)
    ELSE LET r == renderUserData(cfg1, i, marshalErr)
         IN IF r.err # <<>>
            THEN LoadResult(<<>>, r.err, t4)
            ELSE loadServerConfigs(r.cfg, i + 1, marshalErr, t4)

loadConfig(src, marshalErr) ==
    IF Len(src.ServerConfigs) = 0
    THEN LoadResult(<<>>, <<Errorf("config file %q has no serving configurations",
                                   <<configFilePath>>, <<>>)>>, <<>>)
    ELSE loadServerConfigs(src, 1, marshalErr, <<>>)

(***************************************************************************)
(* The dispatcher and the handlers.                                        *)
(***************************************************************************)
\* A buggy Match: only the first compiled matcher is tried.
Match_FirstMatcherOnly(c, s) ==
    Len(c.compiledMatchers) > 0 /\ MatchString(c.compiledMatchers[1], s)

\* serverConfig.Match: some compiled matcher matches s.
Match(c, s) ==
    \E k \in 1..Len(c.compiledMatchers) : MatchString(c.compiledMatchers[k], s)

RECURSIVE stringsSplit(_)
\* strings.Split(s, "/").
stringsSplit(s) ==
    IF "/" \notin Range(s) THEN <<s>>
    ELSE LET i == CHOOSE j \in 1..Len(s) : s[j] = "/" /\ \A k \in 1..(j - 1) : s[k] # "/"
         IN <<SubSeq(s, 1, i - 1)>> \o stringsSplit(SubSeq(s, i + 1, Len(s)))

\* hex.EncodeToString of one byte, and of a byte slice.
HexDigits == <<"0", "1", "2", "3", "4", "5", "6", "7", "8", "9", "a", "b", "c", "d", "e", "f">>
hexByte(b) == <<HexDigits[(b \div 16) + 1], HexDigits[(b % 16) + 1]>>
RECURSIVE hexEncodeToString(_)
hexEncodeToString(by) ==
    IF by = <<>> THEN <<>> ELSE hexByte(Head(by)) \o hexEncodeToString(Tail(by))

\* genSuffix(n) with rd the outcome of its rand.Read: rd.ok, and rd.by the
\* bytes the source delivers, of which the first n are taken.
genSuffix(n, rd) ==
    LET n1 == IF n <= 0 THEN defaultSuffixLength ELSE n
    IN IF ~rd.ok
       THEN [s |-> <<>>, err |-> <<Errorf("read random: %w", <<>>,
                                        <<Errorf("entropy source", <<>>, <<>>)>>)>>]
       ELSE [s |-> <<"-">> \o hexEncodeToString(SubSeq(rd.by, 1, n1)), err |-> <<>>]

\* yaml.Marshal of a metaData value: its fields in declaration order.
yamlMarshalMetaData(md) ==
    <<"instance-id", ":">> \o md.InstanceID \o <<"\n">>
    \o <<"local-hostname", ":">> \o md.LocalHostname \o <<"\n">>
    \o <<"hostname", ":">> \o md.Hostname \o <<"\n">>

RenderResult(by, err, calls) == [by |-> by, err |-> err, genSuffixCalls |-> calls]

\* A buggy renderer: one suffix for the hostname and another for the
\* instance id.
RenderMetaData_SuffixPerField(c, serial, entropy) ==
    LET h == genSuffix(c.GeneratedSuffixSize, entropy[1])
        d == genSuffix(c.GeneratedSuffixSize, entropy[2])
        calls == (IF c.EnableHostnameSuffix THEN 1 ELSE 0)
                 + (IF c.EnableInstanceIDSuffix THEN 1 ELSE 0)
    IN IF (c.EnableHostnameSuffix /\ h.err # <<>>) \/ (c.EnableInstanceIDSuffix /\ d.err # <<>>)
       THEN RenderResult(<<>>, <<Errorf("generate suffix: %w", <<>>, <<>>)>>, calls)
       ELSE RenderResult(yamlMarshalMetaData(
                [InstanceID |-> <<"i-">> \o serial
                                \o (IF c.EnableInstanceIDSuffix THEN d.s ELSE <<>>),
                 Hostname |-> c.Hostname \o (IF c.EnableHostnameSuffix THEN h.s ELSE <<>>),
                 LocalHostname |-> c.Hostname
                                   \o (IF c.EnableHostnameSuffix THEN h.s ELSE <<>>)]),
                <<>>, calls)

\* instanceConfig.RenderMetaData(serial).  entropy is what the successive
\* reads of the random source would deliver to this call; genSuffixCalls
\* counts the calls of genSuffix it made.
RenderMetaData(c, serial, entropy) ==
    LET md0 == [InstanceID |-> <<"i-">> \o serial,
                Hostname |-> c.Hostname,
                LocalHostname |-> c.Hostname]
        gen == c.EnableHostnameSuffix \/ c.EnableInstanceIDSuffix
        g == genSuffix(c.GeneratedSuffixSize, entropy[1])
        suffix == IF gen THEN g.s ELSE <<>>
        md1 == IF c.EnableHostnameSuffix
               THEN [md0 EXCEPT !.Hostname = @ \o suffix, !.LocalHostname = @ \o suffix]
               ELSE md0
        md2 == IF c.EnableInstanceIDSuffix
               THEN [md1 EXCEPT !.InstanceID = @ \o suffix]
               ELSE md1
    IN IF gen /\ g.err # <<>>
       THEN RenderResult(<<>>, <<Errorf("generate suffix: %w", <<>>, g.err)>>, 1)
       ELSE RenderResult(yamlMarshalMetaData(md2), <<>>, IF gen THEN 1 ELSE 0)

Response(status, body, matched, notFoundBy) ==
    [status |-> status, body |-> body, matched |-> matched, notFoundBy |-> notFoundBy]

NotFoundBody == <<"404 page not found", "\n">>

\* err.Error() as http.Error writes it.
ErrorBody(err) == <<err.format, "\n">>

\* A buggy handler: the serial is taken from the first segment of the path.
serverConfigServeHTTP_FirstSegment(c, path, entropy) ==
    LET split == stringsSplit(path)
        suffix == split[Len(split)]
    IN IF suffix = <<"meta-data">>
       THEN LET r == RenderMetaData(c.InstanceConfig[1], split[1], entropy)
            IN IF r.err # <<>>
               THEN Response(500, ErrorBody(r.err[1]), <<c.Name>>, "")
               ELSE Response(200, r.by, <<c.Name>>, "")
       ELSE IF suffix = <<"user-data">>
       THEN Response(200, c.renderedUserData, <<c.Name>>, "")
       ELSE IF suffix = <<"vendor-data">>
       THEN Response(200, <<>>, <<c.Name>>, "")
       ELSE Response(404, NotFoundBody, <<c.Name>>, "serverConfig")

\* serverConfig.ServeHTTP for a request of the given path.
serverConfigServeHTTP(c, path, entropy) ==
    LET split == stringsSplit(path)
        suffix == split[Len(split)]
    IN IF suffix = <<"meta-data">>
       THEN LET serial == split[Len(split) - 1]
                r == RenderMetaData(c.InstanceConfig[1], serial, entropy)
            IN IF r.err # <<>>
               THEN Response(500, ErrorBody(r.err[1]), <<c.Name>>, "")
               ELSE Response(200, r.by, <<c.Name>>, "")
       ELSE IF suffix = <<"user-data">>
       THEN Response(200, c.renderedUserData, <<c.Name>>, "")
       ELSE IF suffix = <<"vendor-data">>
       THEN Response(200, <<>>, <<c.Name>>, "")
       ELSE Response(404, NotFoundBody, <<c.Name>>, "serverConfig")

(***************************************************************************)
(* Inputs: configuration sources (the parsed content of the config file),  *)
(* request paths and outcomes of the random source.                        *)
(***************************************************************************)
InstanceConfig(hostname, idSuffix, hostSuffix, size) ==
    [Hostname |-> hostname, EnableInstanceIDSuffix |-> idSuffix,
     EnableHostnameSuffix |-> hostSuffix, GeneratedSuffixSize |-> size]

ServerConfig(name, patterns, ic, template, replacements) ==
    [Name |-> name, MatchPatterns |-> patterns, InstanceConfig |-> ic,
     UserDataTemplate |-> template, Replacements |-> replacements,
     compiledMatchers |-> <<>>, renderedUserData |-> <<>>]

Config(rules, templates) ==
    [ListenPort |-> 0, ListenAddress |-> <<>>, ServerConfigs |-> rules,
     UserDataTemplates |-> templates]

\* Rule i of a generated source is named after its position.
RuleNameTable == <<"r1", "r2", "r3", "r4">>
RuleName(i) == <<RuleNameTable[i]>>
Named(rules) == [i \in DOMAIN rules |-> [rules[i] EXCEPT !.Name = RuleName(i)]]
RuleLists(rules) == UNION {[1..k -> rules] : k \in 0..MaxRules}

MapsOver(keys, values) == UNION {[d -> values] : d \in SUBSET keys}

\* Templates hold "1"-valued leaves and overlays "2"-valued ones, so that a
\* rendered value tells where it came from.
TemplateLeaves == {Scalar("1"), Sequence(<<"1">>)}
OverlayLeaves == {Scalar("2"), Sequence(<<"2">>)}
TemplateDocs ==
    MapsOver({"a", "b"},
             TemplateLeaves \cup {Mapping(m) : m \in MapsOver({"x", "y"}, TemplateLeaves)})
    \cup {"a" :> Mapping("x" :> Mapping("a" :> Scalar("1") @@ "b" :> Scalar("1"))),
          "a" :> Mapping("x" :> Mapping("a" :> Mapping("y" :> Scalar("1"))))}
OverlayDocs ==
    MapsOver({"a", "b"},
             OverlayLeaves \cup {Mapping(m) : m \in MapsOver({"x", "y"}, OverlayLeaves)})
    \cup {"a" :> Mapping("x" :> Mapping("b" :> Scalar("2") @@ "y" :> Scalar("2"))),
          "a" :> Mapping("x" :> Mapping("a" :> Mapping("x" :> Scalar("2"))))}

BasicTemplate == "a" :> Scalar("1") @@ "b" :> Mapping("x" :> Scalar("1"))
GoodInstanceConfig == <<InstanceConfig(<<"host">>, FALSE, FALSE, 0)>>
DevPattern == <<"dev">>
BadPattern == <<"(", "dev">>

\* Sources that exercise the validation of loadConfig.
ValidationRules ==
    {ServerConfig(<<>>, p, ic, t, r) :
        p \in {<<>>, <<DevPattern>>, <<DevPattern, BadPattern>>},
        ic \in {<<>>, <<InstanceConfig(<<>>, FALSE, FALSE, 0)>>, GoodInstanceConfig},
        t \in {"", "basic"},
        r \in {EmptyDoc, "a" :> Scalar("2")}}
ValidationSources ==
    {Config(Named(rules), "basic" :> BasicTemplate) : rules \in RuleLists(ValidationRules)}

\* Sources that exercise the merge: one rule over every template and
\* overlay, and lists of rules that share one template.
MergeSourcesOne ==
    {Config(<<ServerConfig(RuleName(1), <<DevPattern>>, GoodInstanceConfig, "basic", o)>>,
            "basic" :> t) : t \in TemplateDocs, o \in OverlayDocs}
SharedTemplates ==
    {BasicTemplate, EmptyDoc, "a" :> Mapping("x" :> Scalar("1") @@ "y" :> Sequence(<<"1">>))}
SharingRules ==
    {ServerConfig(<<>>, <<DevPattern>>, GoodInstanceConfig, "basic", o) :
        o \in {EmptyDoc, "a" :> Scalar("2"), "a" :> Mapping("x" :> Scalar("2")),
               "b" :> Mapping("y" :> Scalar("2")), "b" :> Sequence(<<"2">>),
               "a" :> Mapping("y" :> Mapping("x" :> Scalar("2"))) @@ "b" :> Scalar("2")}}
    \cup {ServerConfig(<<>>, <<DevPattern>>, GoodInstanceConfig, "missing", "a" :> Scalar("2")),
          ServerConfig(<<>>, <<DevPattern>>, GoodInstanceConfig, "", EmptyDoc)}
MergeSourcesShared ==
    {Config(Named(rules), "basic" :> t) : t \in SharedTemplates, rules \in RuleLists(SharingRules)}

LoadSources == ValidationSources \cup MergeSourcesOne \cup MergeSourcesShared

\* The configurations the serving model starts from and reloads.
DevRule ==
    ServerConfig(<<"basic-dev">>, <<DevPattern>>,
                 <<InstanceConfig(<<"basic-dev">>, TRUE, TRUE, 1)>>,
                 "basic", "b" :> Mapping("y" :> Scalar("2")))
ProdRule ==
    ServerConfig(<<"basic-prod">>, <<<<"prod">>, <<"dev", "/", "user-data">>>>,
                 <<InstanceConfig(<<"basic-prod">>, FALSE, TRUE, 2)>>,
                 "basic", EmptyDoc)
AnyRule ==
    ServerConfig(<<"any">>, <<<<>>>>, <<InstanceConfig(<<"any">>, TRUE, FALSE, 0)>>,
                 "", EmptyDoc)
NoHostnameRule ==
    ServerConfig(<<"broken">>, <<DevPattern>>, <<InstanceConfig(<<>>, FALSE, FALSE, 0)>>,
                 "", EmptyDoc)
ServeSources ==
    {Config(rules, "basic" :> BasicTemplate) :
        rules \in {<<DevRule, ProdRule>>, <<ProdRule, DevRule>>, <<AnyRule, DevRule>>,
                   <<DevRule, AnyRule>>, <<DevRule, NoHostnameRule>>, <<>>}}

Paths ==
    {<<"/">> \o head \o <<last>> :
        head \in {<<>>, <<"dev", "/">>},
        last \in {"meta-data", "user-data", "vendor-data"}}
    \cup {<<"/", "prod", "/", "meta-data">>, <<"/", "dev", "/">>, <<"/">>}

\* What one read of the random source delivers: an error, or bytes.
RandReads(bytes) ==
    {[ok |-> FALSE, by |-> <<>>]}
    \cup {[ok |-> TRUE, by |-> by] : by \in [1..defaultSuffixLength -> bytes]}
Entropy(bytes) == [1..2 -> RandReads(bytes)]

(***************************************************************************)
(* The state machine.                                                      *)
(***************************************************************************)
NoLoad == [by |-> "none", src |-> Config(<<>>, EmptyDoc), marshalErr |-> {},
           res |-> LoadResult(<<>>, <<>>, <<>>)]
NoRender == [c |-> InstanceConfig(<<>>, FALSE, FALSE, 0), serial |-> <<>>,
             res |-> RenderResult(<<>>, <<>>, 0), called |-> FALSE]
NoResponse == Response(0, <<>>, <<>>, "")
Idle == [pc |-> "idle", path |-> <<>>, c |-> <<>>, i |-> 0, resp |-> NoResponse,
         reads |-> {}]
RequestIds == 1..MaxRequests

Init ==
    /\ phase = "boot"
    /\ store = <<>>
    /\ reqs = [id \in RequestIds |-> Idle]
    /\ lastLoad = NoLoad
    /\ lastRender = NoRender

\* main, up to the start of the server: the configuration is loaded, and a
\* failure is fatal.
Main(sources) ==
    /\ phase = "boot"
    /\ \E src \in sources : \E marshalErr \in SUBSET (1..Len(src.ServerConfigs)) :
          LET r == loadConfig(src, marshalErr)
          IN /\ lastLoad' = [by |-> "main", src |-> src, marshalErr |-> marshalErr, res |-> r]
             /\ IF r.err # <<>>
                THEN phase' = "exited" /\ store' = <<>>
                ELSE phase' = "serving" /\ store' = r.cfg
    /\ UNCHANGED <<reqs, lastRender>>

\* config.reload: the file is loaded again and, when that succeeds, the new
\* configuration is installed in one indivisible step; on failure the
\* installed one is left alone and the error returned.
reload(current, src, marshalErr) ==
    LET r == loadConfig(src, marshalErr)
    IN IF r.err # <<>>
       THEN [store |-> current, err |-> r.err, res |-> r]
       ELSE [store |-> r.cfg, err |-> <<>>, res |-> r]

\* The reload goroutine of main on a write event of the watcher (or on
\* SIGHUP): cfg.reload(), and log.Fatalf when it fails, which ends the
\* process and every request in flight with it.
ReloadEvent(sources) ==
    /\ phase = "serving"
    /\ \E src \in sources : \E marshalErr \in SUBSET (1..Len(src.ServerConfigs)) :
          LET r == reload(store, src, marshalErr)
          IN /\ lastLoad' = [by |-> "reload", src |-> src, marshalErr |-> marshalErr,
                             res |-> r.res]
             /\ IF r.err # <<>>
                THEN /\ phase' = "exited"
                     /\ store' = <<>>
                     /\ reqs' = [id \in RequestIds |-> Idle]
                ELSE /\ phase' = "serving"
                     /\ store' = r.store
                     /\ reqs' = reqs
    /\ UNCHANGED lastRender

\* A buggy handler: the configuration is read through the shared pointer at
\* every step instead of from the copy taken when the handler was called.
receiver_Live(r, shared) == shared[1]

\* The receiver c of config.ServeHTTP: a value receiver, the copy of *cfg
\* made when the handler was called.
receiver(r, shared) == r.c[1]

\* The server calls config.ServeHTTP for a new request.
ReqBegin(id) ==
    /\ phase = "serving"
    /\ reqs[id].pc = "idle"
    /\ \E path \in Paths :
          reqs' = [reqs EXCEPT ![id] =
                      [pc |-> "scan", path |-> path, c |-> store, i |-> 1,
                       resp |-> NoResponse, reads |-> {}]]
    /\ UNCHANGED <<phase, store, lastLoad, lastRender>>

\* One iteration of the loop of config.ServeHTTP: past the last rule the
\* request is not found; a rule that matches serves it; any other is
\* skipped.
ReqScan(id, bytes) ==
    /\ phase = "serving"
    /\ reqs[id].pc = "scan"
    /\ LET r == reqs[id]
           c == receiver(r, store)
       IN IF r.i > Len(c.ServerConfigs)
          THEN reqs' = [reqs EXCEPT ![id].pc = "done",
                                    ![id].reads = @ \cup {c},
                                    ![id].resp = Response(404, NotFoundBody, <<>>, "config")]
          ELSE IF Match(c.ServerConfigs[r.i], r.path)
          THEN \E entropy \in Entropy(bytes) :
                  reqs' = [reqs EXCEPT ![id].pc = "done",
                                       ![id].reads = @ \cup {c},
                                       ![id].resp = serverConfigServeHTTP(
                                           c.ServerConfigs[r.i], r.path, entropy)]
          ELSE reqs' = [reqs EXCEPT ![id].i = @ + 1, ![id].reads = @ \cup {c}]
    /\ UNCHANGED <<phase, store, lastLoad, lastRender>>

\* The handler has returned and the response is on its way.
ReqEnd(id) ==
    /\ phase = "serving"
    /\ reqs[id].pc = "done"
    /\ reqs' = [reqs EXCEPT ![id] = Idle]
    /\ UNCHANGED <<phase, store, lastLoad, lastRender>>

\* One call of RenderMetaData, on its own.
Render(bytes) ==
    /\ ~lastRender.called
    /\ \E host \in {<<"host">>, <<"basic", "-", "dev">>}, idSuffix \in BOOLEAN,
          hostSuffix \in BOOLEAN, size \in {-1, 0, 1, 2, 3},
          serial \in {<<>>, <<"dev">>, <<"abcd">>}, entropy \in Entropy(bytes) :
          LET c == InstanceConfig(host, idSuffix, hostSuffix, size)
          IN lastRender' = [c |-> c, serial |-> serial,
                            res |-> RenderMetaData(c, serial, entropy), called |-> TRUE]
    /\ UNCHANGED <<phase, store, reqs, lastLoad>>

ServeBytes == {171}
RenderBytes == {0, 171}

Next ==
    \/ Main(ServeSources)
    \/ ReloadEvent(ServeSources)
    \/ \E id \in RequestIds : ReqBegin(id)
    \/ \E id \in RequestIds : ReqScan(id, ServeBytes)
    \/ \E id \in RequestIds : ReqEnd(id)

Spec == Init /\ [][Next]_vars

NextLoad ==
    \/ Main(LoadSources)
    \/ ReloadEvent(ServeSources)

SpecLoad == Init /\ [][NextLoad]_vars

NextRender == Render(RenderBytes)

SpecRender == Init /\ [][NextRender]_vars

(***************************************************************************)
(* Properties of the dispatcher and of the handlers (specification Spec).  *)
(***************************************************************************)
Started(r) == r.pc # "idle"
Answered(r) == r.pc = "done"

\* The rules of configuration c with a compiled pattern that occurs in path.
MatchingRules(c, path) ==
    {k \in 1..Len(c.ServerConfigs) :
        \E m \in Range(c.ServerConfigs[k].compiledMatchers) :
            \E i \in 0..Len(path) : \E j \in i..Len(path) : SubSeq(path, i + 1, j) = m.expr}

FirstOf(S) == CHOOSE k \in S : \A l \in S : k <= l

\* C1: a request is served by the lowest-indexed rule of its configuration
\* that has a compiled pattern matching the path, whatever rules follow it;
\* the dispatcher signals NotFound exactly when no rule matches; and the
\* scan never moves past a rule that matches.
C1_FirstMatchWins ==
    \A id \in RequestIds :
        LET r == reqs[id]
            c == r.c[1]
            matching == MatchingRules(c, r.path)
        IN /\ (r.pc = "scan") => \A k \in matching : r.i <= k
           /\ Answered(r) =>
                /\ (r.resp.notFoundBy = "config") <=> (matching = {})
                /\ matching = {} => r.resp.matched = <<>>
                /\ matching # {} =>
                      r.resp.matched = <<c.ServerConfigs[FirstOf(matching)].Name>>

\* C1's case: a request answered by rule 1 although rule 2, with the longer
\* pattern, matches the path too.
C1_Witness ==
    \E id \in RequestIds :
        LET r == reqs[id]
        IN /\ Answered(r)
           /\ MatchingRules(r.c[1], r.path) = {1, 2}
           /\ r.resp.matched = <<r.c[1].ServerConfigs[1].Name>>
           /\ Len(r.c[1].ServerConfigs[1].MatchPatterns[1])
                < Len(r.c[1].ServerConfigs[2].MatchPatterns[1])

RECURSIVE serveFrom(_, _, _, _)
\* What config.ServeHTTP answers when everything it reads comes from the one
\* configuration c: the scan from rule i on.
serveFrom(c, i, path, entropy) ==
    IF i > Len(c.ServerConfigs) THEN Response(404, NotFoundBody, <<>>, "config")
    ELSE IF Match(c.ServerConfigs[i], path)
    THEN serverConfigServeHTTP(c.ServerConfigs[i], path, entropy)
    ELSE serveFrom(c, i + 1, path, entropy)

C3_FailedReloadKeepsServing ==
    (lastLoad.by = "reload" /\ lastLoad.res.err # <<>>) =>
        (phase = "serving" /\ store # <<>>)

LastIndexOf(s, n) ==
    IF \E j \in 1..n : s[j] = "/"
    THEN CHOOSE j \in 1..n : s[j] = "/" /\ \A k \in (j + 1)..n : s[k] # "/"
    ELSE 0

\* The text of path after its last "/", and the text between the last two.
LastSegment(path) == SubSeq(path, LastIndexOf(path, Len(path)) + 1, Len(path))
SegmentBeforeLast(path) ==
    LET l == LastIndexOf(path, Len(path))
    IN SubSeq(path, LastIndexOf(path, l - 1) + 1, l - 1)

RuleNamed(c, name) == CHOOSE s \in Range(c.ServerConfigs) : s.Name = name

\* C7: the answer of a matched rule is decided by the last segment of the
\* path: meta-data renders the metadata with the segment before it as the
\* serial (200, or 500 when rendering fails), user-data returns the rule's
\* rendered user data as it is (nothing for a rule without template),
\* vendor-data an empty 200, anything else 404.
C7_DispatchOnLastSegment ==
    \A id \in RequestIds :
        LET r == reqs[id]
            last == LastSegment(r.path)
            serial == SegmentBeforeLast(r.path)
        IN (Answered(r) /\ r.resp.matched # <<>>) =>
             LET s == RuleNamed(r.c[1], r.resp.matched[1])
                 renders == {RenderMetaData(s.InstanceConfig[1], serial, e) :
                                e \in Entropy(ServeBytes)}
             IN /\ last = <<"meta-data">> =>
                      \/ r.resp.status = 200
                         /\ \E m \in renders : m.err = <<>> /\ r.resp.body = m.by
                         /\ SubSeq(r.resp.body, 1, 3 + Len(serial))
                              = <<"instance-id", ":", "i-">> \o serial
                      \/ r.resp.status = 500 /\ \E m \in renders : m.err # <<>>
                /\ last = <<"user-data">> =>
                      /\ r.resp.status = 200
                      /\ r.resp.body = s.renderedUserData
                      /\ s.UserDataTemplate = "" => r.resp.body = <<>>
                /\ last = <<"vendor-data">> => r.resp.status = 200 /\ r.resp.body = <<>>
                /\ last \notin {<<"meta-data">>, <<"user-data">>, <<"vendor-data">>} =>
                      r.resp.status = 404

\* C7's case: a meta-data request answered with the metadata of the serial
\* "dev".
C7_Witness ==
    \E id \in RequestIds :
        LET r == reqs[id]
        IN /\ Answered(r)
           /\ r.path = <<"/", "dev", "/", "meta-data">>
           /\ r.resp.status = 200
           /\ SubSeq(r.resp.body, 1, 4) = <<"instance-id", ":", "i-", "dev">>

(***************************************************************************)
(* Properties of loadConfig (specification SpecLoad).                      *)
(***************************************************************************)
Loaded == lastLoad.by # "none"
LoadedOk == Loaded /\ lastLoad.res.cfg # <<>>

RECURSIVE ClaimedMerge(_, _)
\* The merge as C4 describes it: a key the overlay does not name keeps the
\* template's value; a key both map to a mapping gets the merge of the two;
\* in every other case the overlay's value stands.
ClaimedMerge(template, overlay) ==
    [k \in DOMAIN template \cup DOMAIN overlay |->
        IF k \notin DOMAIN overlay THEN template[k]
        ELSE IF k \in DOMAIN template /\ template[k].t = "m" /\ overlay[k].t = "m"
        THEN Mapping(ClaimedMerge(template[k].m, overlay[k].m))
        ELSE overlay[k]]

\* C4: the user data rendered for a rule whose template reference resolves
\* is the byte form of the merge of that template with the rule's
\* replacements: mappings merged recursively, any other overlay value
\* replacing or creating its key, the template's other keys kept.
C4_RenderedIsMerge ==
    LoadedOk =>
        LET cfg == lastLoad.res.cfg[1]
        IN \A i \in 1..Len(cfg.ServerConfigs) :
            LET c == cfg.ServerConfigs[i]
            IN c.UserDataTemplate \in DOMAIN lastLoad.src.UserDataTemplates =>
                 c.renderedUserData =
                     yamlMarshalDoc(ClaimedMerge(
                         lastLoad.src.UserDataTemplates[c.UserDataTemplate],
                         lastLoad.src.ServerConfigs[i].Replacements))

\* C4's case: the template {a: 1, b: {x: 1}} with the overlay {b: {y: 2}}
\* rendered as {a: 1, b: {x: 1, y: 2}}.
C4_Witness ==
    /\ LoadedOk
    /\ lastLoad.src.UserDataTemplates["basic"] = BasicTemplate
    /\ Len(lastLoad.src.ServerConfigs) = 1
    /\ lastLoad.src.ServerConfigs[1].Replacements = ("b" :> Mapping("y" :> Scalar("2")))
    /\ lastLoad.res.cfg[1].ServerConfigs[1].renderedUserData
         = <<"a", ":", "1", "\n",
             "b", ":", "{", "x", ":", "1", "\n", "y", ":", "2", "\n", "}", "\n">>

\* The violations C5 names.
NoPatterns(c) == Len(c.MatchPatterns) = 0
EmptyHostname(c) == c.InstanceConfig # <<>> /\ c.InstanceConfig[1].Hostname = <<>>
ReplacementsWithoutTemplate(c) == c.UserDataTemplate = "" /\ DOMAIN c.Replacements # {}
Rejectable(cfg) ==
    \/ Len(cfg.ServerConfigs) = 0
    \/ \E c \in Range(cfg.ServerConfigs) :
          NoPatterns(c) \/ EmptyHostname(c) \/ ReplacementsWithoutTemplate(c)

\* C5: a configuration without rules, or with a rule without patterns, with
\* an empty hostname or with replacements and no template, is answered by
\* an error and no configuration, and is never the installed one.
C5_InvalidRejected ==
    /\ (Loaded /\ Rejectable(lastLoad.src)) =>
          (lastLoad.res.err # <<>> /\ lastLoad.res.cfg = <<>>)
    /\ store # <<>> => ~Rejectable(store[1])

\* C5's case: a source whose second rule has an empty hostname, refused.
C5_Witness ==
    /\ Loaded
    /\ Len(lastLoad.src.ServerConfigs) = 2
    /\ ~Rejectable([lastLoad.src EXCEPT !.ServerConfigs = SubSeq(@, 1, 1)])
    /\ EmptyHostname(lastLoad.src.ServerConfigs[2])
    /\ lastLoad.res.err # <<>>
    /\ phase = "exited"

\* What loading the one rule c of source src alone renders for it.
RenderedAlone(src, c) ==
    loadConfig([src EXCEPT !.ServerConfigs = <<c>>], {}).cfg[1].ServerConfigs[1].renderedUserData

\* C8: loading leaves the templates as the source has them, and what is
\* rendered for a rule is what would be rendered for it were it the only
\* rule: the replacements of the rules before it leave no trace.
C8_TemplateNotMutated ==
    LoadedOk =>
        LET cfg == lastLoad.res.cfg[1]
        IN /\ cfg.UserDataTemplates = lastLoad.src.UserDataTemplates
           /\ \A i \in 1..Len(cfg.ServerConfigs) :
                 cfg.ServerConfigs[i].renderedUserData
                    = RenderedAlone(lastLoad.src, lastLoad.src.ServerConfigs[i])

\* C8's case: two rules over the same template, each with replacements of
\* its own for the same key.
C8_Witness ==
    /\ LoadedOk
    /\ Len(lastLoad.src.ServerConfigs) = 2
    /\ LET c1 == lastLoad.src.ServerConfigs[1]
           c2 == lastLoad.src.ServerConfigs[2]
       IN /\ c1.UserDataTemplate = "basic" /\ c2.UserDataTemplate = "basic"
          /\ c1.Replacements # c2.Replacements
          /\ DOMAIN c1.Replacements \cap DOMAIN c2.Replacements # {}
          /\ lastLoad.res.cfg[1].ServerConfigs[1].renderedUserData
               # lastLoad.res.cfg[1].ServerConfigs[2].renderedUserData

\* The checks of one rule in the order C9 gives them, and every check of
\* every rule of a source in that order.
RuleChecks == <<"loadMatchers", "instanceConfig", "replacements", "userData">>
AllChecks(src) ==
    [k \in 1..(Len(src.ServerConfigs) * Len(RuleChecks)) |->
        <<((k - 1) \div Len(RuleChecks)) + 1, RuleChecks[((k - 1) % Len(RuleChecks)) + 1]>>]

\* Whether check <<i, name>> of source src fails.
CheckFails(src, marshalErr, check) ==
    LET c == src.ServerConfigs[check[1]]
    IN CASE check[2] = "loadMatchers" ->
              NoPatterns(c) \/ \E m \in Range(c.MatchPatterns) : "(" \in Range(m)
         [] check[2] = "instanceConfig" -> c.InstanceConfig = <<>> \/ EmptyHostname(c)
         [] check[2] = "replacements" -> ReplacementsWithoutTemplate(c)
         [] check[2] = "userData" ->
              c.UserDataTemplate \in DOMAIN src.UserDataTemplates /\ check[1] \in marshalErr

\* The words of the error of a failing check.
ErrorOf(src, check) ==
    CASE check[2] = "loadMatchers" -> "config %q has invalid matchers: %w"
      [] check[2] = "instanceConfig" ->
           IF src.ServerConfigs[check[1]].InstanceConfig = <<>>
           THEN "config %q does not have an instanceConfig set"
           ELSE "invalid instance config: %w"
      [] check[2] = "replacements" ->
           "replacers can only be configured when referencing a user data template"
      [] check[2] = "userData" -> "render user data after replacements: %w"

\* C9: loadConfig first refuses an empty rule list; otherwise it runs the
\* checks rule by rule, each rule's in the order patterns, instance config,
\* replacements, user data, up to and including the first that fails,
\* whose error it returns; nothing after it is run.
C9_FailFastInOrder ==
    Loaded =>
        LET src == lastLoad.src
            res == lastLoad.res
            all == AllChecks(src)
            failing == {k \in DOMAIN all : CheckFails(src, lastLoad.marshalErr, all[k])}
        IN IF Len(src.ServerConfigs) = 0
           THEN /\ res.err # <<>>
                /\ res.err[1].format = "config file %q has no serving configurations"
                /\ res.trace = <<>>
           ELSE IF failing = {}
           THEN res.err = <<>> /\ res.cfg # <<>> /\ res.trace = all
           ELSE /\ res.err # <<>>
                /\ res.cfg = <<>>
                /\ res.trace = SubSeq(all, 1, FirstOf(failing))
                /\ res.err[1].format = ErrorOf(src, all[FirstOf(failing)])

\* C9's case: rule 1 fails its replacements check and rule 2 its pattern
\* check; the error is rule 1's.
C9_Witness ==
    /\ Loaded
    /\ Len(lastLoad.src.ServerConfigs) = 2
    /\ ReplacementsWithoutTemplate(lastLoad.src.ServerConfigs[1])
    /\ NoPatterns(lastLoad.src.ServerConfigs[2])
    /\ lastLoad.res.err # <<>>
    /\ lastLoad.res.trace[Len(lastLoad.res.trace)] = <<1, "replacements">>

\* C10: the error of a check that fails for a rule names that rule.
C10_ErrorNamesRule ==
    (Loaded /\ lastLoad.res.err # <<>> /\ lastLoad.res.trace # <<>>) =>
        LET failed == lastLoad.res.trace[Len(lastLoad.res.trace)]
        IN lastLoad.src.ServerConfigs[failed[1]].Name \in ErrorArgs(lastLoad.res.err[1])

(***************************************************************************)
(* Properties of RenderMetaData (specification SpecRender).                *)
(***************************************************************************)
RECURSIVE FieldFrom(_, _, _)
\* The value of field key in the byte form by of a metadata record: the
\* tokens between "key :" and the end of its line, searched from token i.
FieldFrom(by, key, i) ==
    IF i + 1 > Len(by) THEN <<>>
    ELSE IF by[i] = key /\ by[i + 1] = ":" /\ (i = 1 \/ by[i - 1] = "\n")
    THEN LET end == CHOOSE j \in (i + 2)..Len(by) :
                        by[j] = "\n" /\ \A k \in (i + 2)..(j - 1) : by[k] # "\n"
         IN SubSeq(by, i + 2, end - 1)
    ELSE FieldFrom(by, key, i + 1)
Field(by, key) == FieldFrom(by, key, 1)

\* C6: one call of RenderMetaData generates a suffix once when a suffix flag
\* is set and never otherwise; hostname and local-hostname are equal; and
\* with both flags set hostname, local-hostname and instance-id are the
\* configured hostname, respectively "i-" and the serial, followed by the
\* same suffix.
C6_OneSuffixPerRender ==
    lastRender.called =>
        LET c == lastRender.c
            res == lastRender.res
            host == Field(res.by, "hostname")
            id == Field(res.by, "instance-id")
            hostSuffix == SubSeq(host, Len(c.Hostname) + 1, Len(host))
            idSuffix == SubSeq(id, Len(lastRender.serial) + 2, Len(id))
        IN /\ res.genSuffixCalls
                = (IF c.EnableHostnameSuffix \/ c.EnableInstanceIDSuffix THEN 1 ELSE 0)
           /\ res.err = <<>> =>
                /\ host = Field(res.by, "local-hostname")
                /\ SubSeq(host, 1, Len(c.Hostname)) = c.Hostname
                /\ SubSeq(id, 1, Len(lastRender.serial) + 1) = <<"i-">> \o lastRender.serial
                /\ (c.EnableHostnameSuffix /\ c.EnableInstanceIDSuffix) =>
                      (hostSuffix = idSuffix /\ Len(hostSuffix) > 1 /\ hostSuffix[1] = "-")

\* C6's case: both flags set, and the three fields end in one suffix of
\* four bytes.
C6_Witness ==
    /\ lastRender.called
    /\ lastRender.c.EnableHostnameSuffix /\ lastRender.c.EnableInstanceIDSuffix
    /\ lastRender.serial = <<"abcd">>
    /\ lastRender.res.err = <<>>
    /\ Field(lastRender.res.by, "instance-id")
         = <<"i-", "abcd", "-", "0", "0", "a", "b", "0", "0", "a", "b">>
    /\ Field(lastRender.res.by, "local-hostname")
         = <<"host", "-", "0", "0", "a", "b", "0", "0", "a", "b">>

====
